---- MODULE Spec2Model ----
(***************************************************************************)
(* Theme preference resolution of the Epic Ranking root route              *)
(* (app/root.tsx): the server action that stores the theme, the loader     *)
(* that reads it back, and the client hooks useTheme,                      *)
(* useOptimisticThemeMode and ThemeSwitch that reconcile the in-flight     *)
(* submission, the stored preference and the client hint.                  *)
(***************************************************************************)
EXTENDS Naturals, Sequences, FiniteSets

VARIABLES
    hints,        \* useHints(): [theme |-> "light" | "dark"]
    themeCookie,  \* the theme preference persisted by the server (Null when absent)
    requestInfo,  \* loader data read by useRequestInfo(): [userPrefs |-> [theme |-> ...]]
    fetchers,     \* useFetchers(): the in-flight fetchers, in the host's order
    lastEvent,    \* history: what the last step was, its request and its response
    solo          \* history: the stored preference when a lone submission began

vars == <<hints, themeCookie, requestInfo, fetchers, lastEvent, solo>>

\* Most fetchers that can be in flight at once.
MaxFetchers == 3

\* JavaScript's undefined and null.
Undefined == "undefined"
Null == "null"

\* z.object({ theme: z.enum(['system', 'light', 'dark']) })
ThemeFormSchema == {"system", "light", "dark"}

\* The values the client hint can take.
HintThemes == {"light", "dark"}

\* A fetcher without form data (a load), and the form data a submission can carry:
\* a theme field that is valid, not in the enumeration ("blue"), or missing.
NoFormData == [present |-> FALSE, theme |-> Undefined]
FormDataOf(t) == [present |-> TRUE, theme |-> t]
ThemeFieldValues == ThemeFormSchema \cup {"blue", Undefined}

\* The fetchers other parts of the page can start.
OtherFetchers ==
    {[formAction |-> "/", formData |-> fd] :
        fd \in {NoFormData} \cup {FormDataOf(t) : t \in ThemeFieldValues}}
    \cup {[formAction |-> "/teams", formData |-> fd] :
        fd \in {NoFormData, FormDataOf("dark")}}

\* parseWithZod(formData, { schema }): a result object, never an exception.
parseWithZod(formData, schema) ==
    IF formData.theme \in schema
    THEN [status |-> "success", value |-> [theme |-> formData.theme]]
    ELSE [status |-> "error", value |-> [theme |-> Undefined]]

\* setTheme(theme): the cookie value that persists the submitted preference.
setTheme(theme) == theme

\* getTheme(request): the persisted preference, null when there is none.
getTheme(cookie) == cookie

NoResponse == [status |-> 0, body |-> "", setCookie |-> Undefined]

\* A plausible slip: the validation guard is dropped and the field is stored raw.
action_NoValidation(formData) ==
    [status |-> 200, body |-> "result", setCookie |-> setTheme(formData.theme)]

\* action({ request }): validate, then answer with a set-cookie header.
action(formData) ==
    LET submission == parseWithZod(formData, ThemeFormSchema)
    IN  IF submission.status # "success"
        THEN [status |-> 400, body |-> "Invalid theme received",
              setCookie |-> Undefined]
        ELSE [status |-> 200, body |-> "result",
              setCookie |-> setTheme(submission.value.theme)]

\* loader({ request }): requestInfo.userPrefs.theme = getTheme(request).
loader(cookie) == [userPrefs |-> [theme |-> getTheme(cookie)]]

\* A plausible slip: Array.prototype.findLast instead of find.
find_Last(fs, path) ==
    LET M == {i \in 1..Len(fs) : fs[i].formAction = path}
    IN  IF M = {} THEN 0 ELSE CHOOSE i \in M : \A j \in M : j <= i

\* fetchers.find(f => f.formAction === path): index of the first match, 0 if none.
RECURSIVE findFrom(_, _, _)
findFrom(fs, path, i) ==
    IF i > Len(fs) THEN 0
    ELSE IF fs[i].formAction = path THEN i
    ELSE findFrom(fs, path, i + 1)

find(fs, path) == findFrom(fs, path, 1)

\* A plausible slip: the parsed status is not checked, the raw field is returned.
useOptimisticThemeMode_Unchecked(fs) ==
    LET themeFetcher == find(fs, "/")
    IN  IF themeFetcher # 0 /\ fs[themeFetcher].formData.present
        THEN fs[themeFetcher].formData.theme
        ELSE Undefined

\* useOptimisticThemeMode()
useOptimisticThemeMode(fs) ==
    LET themeFetcher == find(fs, "/")
    IN  IF themeFetcher # 0 /\ fs[themeFetcher].formData.present
        THEN LET submission ==
                     parseWithZod(fs[themeFetcher].formData, ThemeFormSchema)
             IN  IF submission.status = "success"
                 THEN submission.value.theme
                 ELSE Undefined
        ELSE Undefined

\* A plausible slip: the stored preference is consulted before the optimistic one.
useTheme_StoredFirst(h, ri, fs) ==
    LET optimisticMode == useOptimisticThemeMode(fs)
    IN  IF ri.userPrefs.theme # Null THEN ri.userPrefs.theme
        ELSE IF optimisticMode # Undefined
        THEN (IF optimisticMode = "system" THEN h.theme ELSE optimisticMode)
        ELSE h.theme

\* A plausible slip: the fallback forgets the stored preference.
useTheme_HintOnly(h, ri, fs) ==
    LET optimisticMode == useOptimisticThemeMode(fs)
    IN  IF optimisticMode # Undefined
        THEN (IF optimisticMode = "system" THEN h.theme ELSE optimisticMode)
        ELSE h.theme

\* A plausible slip: the fallback is Document's default instead of the hint.
useTheme_DefaultLight(h, ri, fs) ==
    LET optimisticMode == useOptimisticThemeMode(fs)
    IN  IF optimisticMode # Undefined
        THEN (IF optimisticMode = "system" THEN h.theme ELSE optimisticMode)
        ELSE IF ri.userPrefs.theme # Null THEN ri.userPrefs.theme ELSE "light"

\* useTheme()
useTheme(h, ri, fs) ==
    LET optimisticMode == useOptimisticThemeMode(fs)
    IN  IF optimisticMode # Undefined
        THEN (IF optimisticMode = "system" THEN h.theme ELSE optimisticMode)
        ELSE IF ri.userPrefs.theme # Null THEN ri.userPrefs.theme ELSE h.theme

\* A plausible slip: the cycle runs the other way round.
computeNextMode_Reversed(mode) ==
    IF mode = "system" THEN "dark" ELSE IF mode = "dark" THEN "light" ELSE "system"

\* nextMode = mode === 'system' ? 'light' : mode === 'light' ? 'dark' : 'system'
computeNextMode(mode) ==
    IF mode = "system" THEN "light" ELSE IF mode = "light" THEN "dark" ELSE "system"

\* A plausible slip: the pending value is not consulted.
ThemeSwitch_StoredOnly(userPreference, fs) ==
    LET mode == IF userPreference # Null THEN userPreference ELSE "system"
    IN  [mode |-> mode, nextMode |-> computeNextMode(mode)]

\* ThemeSwitch({ userPreference }): the mode shown and the hidden input's value.
ThemeSwitch(userPreference, fs) ==
    LET optimisticMode == useOptimisticThemeMode(fs)
        mode == IF optimisticMode # Undefined THEN optimisticMode
                ELSE IF userPreference # Null THEN userPreference
                ELSE "system"
    IN  [mode |-> mode, nextMode |-> computeNextMode(mode)]

RemoveAt(s, i) == SubSeq(s, 1, i - 1) \o SubSeq(s, i + 1, Len(s))

NoRequest == [formAction |-> "", formData |-> NoFormData]
NotSolo == [active |-> FALSE, theme |-> Null]

\* The history of a submission that starts now.
SoloAtStart ==
    IF fetchers = <<>>
    THEN [active |-> TRUE, theme |-> requestInfo.userPrefs.theme]
    ELSE NotSolo

Init ==
    /\ hints \in {[theme |-> t] : t \in HintThemes}
    /\ themeCookie = Null
    /\ requestInfo = loader(Null)
    /\ fetchers = <<>>
    /\ lastEvent = [kind |-> "init", request |-> NoRequest, response |-> NoResponse]
    /\ solo = NotSolo

\* The user presses the ThemeSwitch button: <fetcher.Form method="POST"> with the
\* hidden input theme = nextMode is submitted to the root action.
Toggle ==
    /\ Len(fetchers) < MaxFetchers
    /\ LET f == [formAction |-> "/",
                 formData |-> FormDataOf(
                     ThemeSwitch(requestInfo.userPrefs.theme, fetchers).nextMode)]
       IN  /\ fetchers' = Append(fetchers, f)
           /\ lastEvent' = [kind |-> "toggle", request |-> f, response |-> NoResponse]
    /\ solo' = SoloAtStart
    /\ UNCHANGED <<hints, themeCookie, requestInfo>>

\* Another fetcher of the page starts.
Submit ==
    /\ Len(fetchers) < MaxFetchers
    /\ \E f \in OtherFetchers :
          /\ fetchers' = Append(fetchers, f)
          /\ lastEvent' = [kind |-> "submit", request |-> f, response |-> NoResponse]
    /\ solo' = SoloAtStart
    /\ UNCHANGED <<hints, themeCookie, requestInfo>>

\* A submission to "/" reaches the server: the action answers, the browser applies
\* its set-cookie header, the loader runs again and the fetcher leaves the list.
ActionSettles ==
    \E i \in 1..Len(fetchers) :
        /\ fetchers[i].formAction = "/"
        /\ fetchers[i].formData.present
        /\ LET response == action(fetchers[i].formData)
               cookie == IF response.setCookie # Undefined
                         THEN response.setCookie ELSE themeCookie
           IN  /\ themeCookie' = cookie
               /\ requestInfo' = loader(cookie)
               /\ lastEvent' = [kind |-> "action", request |-> fetchers[i],
                                response |-> response]
        /\ fetchers' = RemoveAt(fetchers, i)
        /\ solo' = NotSolo
        /\ UNCHANGED hints

\* A fetcher that does not run the root action settles: the loader runs again.
OtherSettles ==
    \E i \in 1..Len(fetchers) :
        /\ ~(fetchers[i].formAction = "/" /\ fetchers[i].formData.present)
        /\ requestInfo' = loader(themeCookie)
        /\ lastEvent' = [kind |-> "other", request |-> fetchers[i],
                         response |-> [status |-> 200, body |-> "",
                                       setCookie |-> Undefined]]
        /\ fetchers' = RemoveAt(fetchers, i)
        /\ solo' = NotSolo
        /\ UNCHANGED <<hints, themeCookie>>

\* A request fails before the server answers: the fetcher leaves the list.
RequestFails ==
    \E i \in 1..Len(fetchers) :
        /\ lastEvent' = [kind |-> "failed", request |-> fetchers[i],
                         response |-> NoResponse]
        /\ fetchers' = RemoveAt(fetchers, i)
        /\ solo' = NotSolo
        /\ UNCHANGED <<hints, themeCookie, requestInfo>>

Next ==
    \/ Toggle
    \/ Submit
    \/ ActionSettles
    \/ OtherSettles
    \/ RequestFails

Spec == Init /\ [][Next]_vars

(***************************************************************************)
(* Properties                                                              *)
(***************************************************************************)

\* What the properties read from the state.
Stored == requestInfo.userPrefs.theme
Hint == hints.theme
Effective == useTheme(hints, requestInfo, fetchers)
StoredOrHint == IF Stored # Null THEN Stored ELSE Hint

\* The positions of the in-flight requests that target "/", and the first of them.
Matching(fs) == {i \in 1..Len(fs) : fs[i].formAction = "/"}
FirstMatching(fs) == CHOOSE i \in Matching(fs) : \A j \in Matching(fs) : i <= j

\* The first request that targets "/" carries form data with the valid theme v.
PendingTheme(fs, v) ==
    /\ Matching(fs) # {}
    /\ fs[FirstMatching(fs)].formData = FormDataOf(v)
    /\ v \in {"system", "light", "dark"}

\* No request targets "/", or the first that does has no form data, or its theme
\* field is missing or outside the enumeration.
NothingPending(fs) ==
    \/ Matching(fs) = {}
    \/ ~fs[FirstMatching(fs)].formData.present
    \/ fs[FirstMatching(fs)].formData.theme \notin {"system", "light", "dark"}

\* The toggle cycle, as a table.
Cycle == [m \in {"system", "light", "dark"} |->
             IF m = "system" THEN "light" ELSE IF m = "light" THEN "dark" ELSE "system"]

\* C1: whenever a valid optimistic submission v is in flight, the effective theme
\* is the client hint if v is "system" and v itself otherwise, whatever is stored.
C1_OptimisticDecides ==
    \A v \in ThemeFormSchema :
        PendingTheme(fetchers, v) =>
            Effective = (IF v = "system" THEN Hint ELSE v)

\* C1 witness: "system" is pending over a stored "dark" with hint "light".
C1_Witness ==
    /\ PendingTheme(fetchers, "system")
    /\ Stored = "dark"
    /\ Hint = "light"
    /\ Effective = "light"

\* C2: with no optimistic submission, the effective theme is the stored
\* preference when there is one and the client hint only when there is none.
C2_StoredThenHint ==
    useOptimisticThemeMode(fetchers) = Undefined =>
        /\ Stored # Null => Effective = Stored
        /\ Stored = Null => Effective = Hint

\* C2 witness: nothing in flight, "dark" stored, hint "light": the result is "dark".
C2_Witness ==
    /\ fetchers = <<>>
    /\ Stored = "dark"
    /\ Hint = "light"
    /\ Effective = "dark"

\* C3: in every reachable state the effective theme is "light" or "dark", never
\* the symbolic "system".
C3_AlwaysConcrete == Effective \in {"light", "dark"}

\* C4: the next-mode computation is total on the three modes, follows
\* system -> light -> dark -> system, has no fixed point and has period three;
\* every toggle's payload is the successor of the mode the switch showed.
C4_Cycle ==
    /\ \A m \in ThemeFormSchema :
          /\ computeNextMode(m) \in ThemeFormSchema
          /\ computeNextMode(m) = Cycle[m]
          /\ computeNextMode(m) # m
          /\ computeNextMode(computeNextMode(computeNextMode(m))) = m
    /\ ThemeSwitch(Stored, fetchers).nextMode
          = Cycle[ThemeSwitch(Stored, fetchers).mode]

\* C4 witness: the switch shows "dark" after two confirmed toggles, so the next
\* payload closes the cycle with "system".
C4_Witness ==
    /\ lastEvent.kind = "action"
    /\ fetchers = <<>>
    /\ ThemeSwitch(Stored, fetchers).mode = "dark"
    /\ ThemeSwitch(Stored, fetchers).nextMode = "system"

\* C5: with nothing valid pending on "/" the optimistic hook returns no value and
\* the effective theme is stored ?? hint; the hook always returns a theme or
\* no value.
C5_InvalidIsNone ==
    /\ useOptimisticThemeMode(fetchers) \in ThemeFormSchema \cup {Undefined}
    /\ NothingPending(fetchers) =>
          /\ useOptimisticThemeMode(fetchers) = Undefined
          /\ Effective = StoredOrHint

\* C5 witness: the first request on "/" carries theme "blue" over a stored "dark".
C5_Witness ==
    /\ Matching(fetchers) # {}
    /\ fetchers[FirstMatching(fetchers)].formData = FormDataOf("blue")
    /\ Stored = "dark"
    /\ Hint = "light"
    /\ Effective = "dark"

\* The step is a fetcher settling, and it settled in failure.
Settled == lastEvent'.kind \in {"action", "other", "failed"}
SettledInFailure == lastEvent'.kind = "failed" \/ lastEvent'.response.status = 400

C7_ValidatedBeforeUse ==
    [][/\ (lastEvent'.kind = "action"
             /\ lastEvent'.request.formData.theme \notin {"system", "light", "dark"}) =>
              /\ lastEvent'.response.status = 400
              /\ lastEvent'.response.body = "Invalid theme received"
              /\ lastEvent'.response.setCookie = Undefined
              /\ themeCookie' = themeCookie
              /\ requestInfo' = requestInfo
       /\ (lastEvent'.kind = "action"
             /\ lastEvent'.request.formData.theme \in {"system", "light", "dark"}) =>
              /\ lastEvent'.response.status = 200
              /\ lastEvent'.response.setCookie
                    = setTheme(lastEvent'.request.formData.theme)
              /\ themeCookie' = lastEvent'.response.setCookie
       /\ (themeCookie' # themeCookie \/ requestInfo' # requestInfo) =>
              /\ lastEvent'.kind = "action"
              /\ lastEvent'.request.formData.theme \in {"system", "light", "dark"}
    ]_vars

\* C7 witness: the action has just refused theme "blue" and "dark" is still stored.
C7_Witness ==
    /\ lastEvent.kind = "action"
    /\ lastEvent.request.formData = FormDataOf("blue")
    /\ lastEvent.response.status = 400
    /\ themeCookie = "dark"
    /\ Stored = "dark"

\* C8: only the first request on "/" counts: the optimistic value is its theme if
\* that validates and no value otherwise, and the requests after it change nothing.
C8_FirstMatchOnly ==
    Matching(fetchers) # {} =>
        LET first == FirstMatching(fetchers)
            fd == fetchers[first].formData
        IN  /\ useOptimisticThemeMode(fetchers)
                  = (IF fd.present /\ fd.theme \in {"system", "light", "dark"}
                     THEN fd.theme ELSE Undefined)
            /\ useOptimisticThemeMode(fetchers)
                  = useOptimisticThemeMode(SubSeq(fetchers, 1, first))

\* C8 witness: the first request on "/" is invalid, a later one is valid, and the
\* hook returns no value.
C8_Witness ==
    /\ Len(fetchers) = 3
    /\ fetchers[1].formAction = "/teams"
    /\ fetchers[2] = [formAction |-> "/", formData |-> FormDataOf("blue")]
    /\ fetchers[3] = [formAction |-> "/", formData |-> FormDataOf("light")]
    /\ useOptimisticThemeMode(fetchers) = Undefined

\* The mode the switch starts from: the pending value, else the stored one, else
\* "system".
RawMode ==
    IF \E v \in {"system", "light", "dark"} : PendingTheme(fetchers, v)
    THEN fetchers[FirstMatching(fetchers)].formData.theme
    ELSE IF Stored # Null THEN Stored ELSE "system"

\* C9: a toggle submits the successor of the raw mode (pending value, else stored
\* preference, else "system"), not of the concretized theme.
C9_NextPayload ==
    [][lastEvent'.kind = "toggle" =>
        /\ fetchers' = Append(fetchers, lastEvent'.request)
        /\ lastEvent'.request.formAction = "/"
        /\ lastEvent'.request.formData = FormDataOf(Cycle[RawMode])
        /\ (useOptimisticThemeMode(fetchers) = Undefined /\ Stored = Null) =>
              lastEvent'.request.formData.theme = "light"
    ]_vars

\* C9 witness: with "system" pending over a stored "dark" and hint "dark", the
\* toggle submitted "light", the successor of the pending "system".
C9_Witness ==
    /\ lastEvent.kind = "toggle"
    /\ Len(fetchers) = 2
    /\ fetchers[1] = [formAction |-> "/", formData |-> FormDataOf("system")]
    /\ fetchers[2] = [formAction |-> "/", formData |-> FormDataOf("light")]
    /\ Stored = "dark"
    /\ Hint = "dark"

\* C10: when the only in-flight submission, a valid theme, settles successfully,
\* the effective theme right after equals the effective theme while in flight.
C10_NoFlicker ==
    [][(/\ lastEvent'.kind = "action"
        /\ lastEvent'.response.status = 200
        /\ Len(fetchers) = 1
        /\ hints' = hints) =>
            useTheme(hints', requestInfo', fetchers') = Effective
    ]_vars

====
